---- MODULE Spec2Model ----
(***************************************************************************)
(* job-mailer: the interactive mailer of src/main.rs.  One process loads   *)
(* the delivery log (sent_log.json) at start-up, then serves a menu of     *)
(* single sends, bulk sends, previews and history views.  Every send       *)
(* attempt pushes a record on the in-memory log and rewrites the log file. *)
(***************************************************************************)
EXTENDS Integers, Sequences, FiniteSets, TLC

\* ------------------------------------------------------------------ bounds
MaxRecipients == 3      \* longest recipient list typed into a bulk run
MaxLog        == 3      \* longest in-memory log explored
MaxDelay      == 1      \* largest delay bound typed at the prompts
MaxStored     == 1      \* records in the log file found at start-up

\* ------------------------------------------------------------ strings
\* A string is the sequence of its characters.
AddrA     == <<"a", "@">>
AddrB     == <<"b", "@">>
NoAt      == <<"n">>
EmptyLine == <<>>
InputLines == {EmptyLine, AddrA, AddrB, NoAt}

contains(s, c) == \E k \in 1..Len(s) : s[k] = c
is_empty(s)    == Len(s) = 0

\* Option<T>
None    == <<>>
Some(x) == <<x>>

\* Result<(), Error> of send_email
Ok     == [ok |-> TRUE,  err |-> None]
Err(e) == [ok |-> FALSE, err |-> Some(e)]
NoResult == [ok |-> FALSE, err |-> None]

Delays == 0..MaxDelay

\* ------------------------------------------------------------ transport
\* send_email: `to.parse()?` fails for a malformed address; otherwise the
\* SMTP exchange succeeds or fails.
send_email(to) ==
    IF contains(to, "@") THEN {Ok, Err("mailbox full")}
                         ELSE {Err("invalid address")}

\* ------------------------------------------------------------ records
\* Local::now(): the clock has moved on since it was last read.
now(t) == t + 1

SentRecord_no_error(email_, at, res) ==
    [email |-> email_, sent_at |-> at, success |-> res.ok, error |-> None]
SentRecord(email_, at, res) ==
    [email |-> email_, sent_at |-> at, success |-> res.ok, error |-> res.err]

push_front(records, rec) == <<rec>> \o records
push_replace(records, rec) == <<rec>>
push(records, rec) == Append(records, rec)

\* ------------------------------------------------------------ log file
\* The file holds a JSON document {"records": [...]}.  A document is the
\* sequence of its encoded records and a flag telling whether the text is
\* complete (closed); an incomplete text does not parse.
JNull   == <<"null">>
JStr(s) == <<"str", s>>

to_json(r) ==
    <<r.email, r.sent_at, r.success,
      IF r.error = None THEN JNull ELSE JStr(r.error[1])>>
from_json_no_error(j) ==
    [email |-> j[1], sent_at |-> j[2], success |-> j[3], error |-> None]
from_json(j) ==
    [email |-> j[1], sent_at |-> j[2], success |-> j[3],
     error |-> IF j[4] = JNull THEN None ELSE Some(j[4][2])]

to_string_pretty(records) ==
    [records |-> [k \in 1..Len(records) |-> to_json(records[k])], closed |-> TRUE]
from_str(text) ==
    IF text.closed
    THEN Some([k \in 1..Len(text.records) |-> from_json(text.records[k])])
    ELSE None

Absent     == [exists |-> FALSE, text |-> [records |-> <<>>, closed |-> FALSE]]
FileOf(t)  == [exists |-> TRUE, text |-> t]
Truncated  == FileOf([records |-> <<>>, closed |-> FALSE])
Partial(records, k) ==
    FileOf([records |-> [j \in 1..k |-> to_json(records[j])], closed |-> FALSE])

read_to_string(f) == IF f.exists THEN Some(f.text) ELSE None

load_log_lenient(f) ==
    [k \in 1..Len(f.text.records) |-> from_json(f.text.records[k])]
load_log(f) ==
    LET c == read_to_string(f) IN
    IF c = None THEN <<>>
    ELSE LET parsed == from_str(c[1]) IN
         IF parsed = None THEN <<>> ELSE parsed[1]

save_log_stale(f, records) == f
save_log(f, records) == FileOf(to_string_pretty(records))

\* Log files a previous run can have left behind.
StoredRecords ==
    {SentRecord(AddrA, 0, Ok), SentRecord(AddrB, 0, Err("mailbox full"))}
RECURSIVE SeqsUpTo(_, _)
SeqsUpTo(S, n) ==
    IF n = 0 THEN {<<>>}
    ELSE LET shorter == SeqsUpTo(S, n - 1) IN
         shorter \cup {Append(s, x) : s \in {t \in shorter : Len(t) = n - 1}, x \in S}
InitialFiles ==
    {Absent}
    \cup {FileOf(to_string_pretty(l)) : l \in SeqsUpTo(StoredRecords, MaxStored)}
    \cup {Partial(l, Len(l)) : l \in SeqsUpTo(StoredRecords, MaxStored)}

\* ------------------------------------------------------------ helpers
\* `?` on a Result: TRUE when control continues, FALSE when the error returns.
question_mark_ignored(ok) == TRUE
question_mark(ok) == ok

\* send_bulk, line 223
no_recipients_never(list) == FALSE
no_recipients(list) == is_empty(list)

\* send_bulk, line 293: `i < emails.len() - 1`
not_last_inclusive(idx, n) == idx < n
not_last(idx, n) == idx < n - 1

\* send_bulk, line 294: gen_range(min_delay..=max_delay); the empty range panics.
gen_range_from_zero(lo, hi) == 0..hi
gen_range(lo, hi) == lo..hi

\* lines 185 and 268: `.await` hands back control when send_email has returned.
returned_never(n) == n
returned(n) == n - 1

\* send_bulk, lines 279-288
count_failed_always(n, res) == n + 1
count_success(n, res) == IF res.ok THEN n + 1 ELSE n
count_failed(n, res)  == IF res.ok THEN n ELSE n + 1

\* ------------------------------------------------------------ rendering
\* A text is the sequence of its pieces: a piece is a placeholder token or
\* a run of other characters.
MaxBody == 1            \* longest template body explored, in pieces

Tokens == {"{{name}}", "{{email}}", "{{phone}}", "{{title}}", "{{summary}}",
           "{{skills}}", "{{experience_years}}", "{{linkedin}}", "{{github}}"}

\* str::replace: every occurrence of `from`, left to right, in one pass.
RECURSIVE replace(_, _, _)
replace(text, from, to) ==
    IF text = <<>> THEN <<>>
    ELSE (IF Head(text) = from THEN to ELSE <<Head(text)>>)
         \o replace(Tail(text), from, to)

\* [String]::join
RECURSIVE join(_, _)
join(list, sep) ==
    IF list = <<>> THEN <<>>
    ELSE IF Len(list) = 1 THEN list[1]
    ELSE list[1] \o <<sep>> \o join(Tail(list), sep)

\* u8::to_string: the decimal digits
Digit(d) == <<"0", "1", "2", "3", "4", "5", "6", "7", "8", "9">>[d + 1]
RECURSIVE to_string(_)
to_string(n) ==
    IF n < 10 THEN <<Digit(n)>> ELSE to_string(n \div 10) \o <<Digit(n % 10)>>

\* Option::unwrap_or
unwrap_or(opt, default) == IF opt = None THEN default ELSE opt[1]

build_email(cfg) ==
    LET p == cfg.profile
        t == cfg.template
        subj == replace(replace(t.subject, "{{name}}", p.name), "{{title}}", p.title)
        b1 == replace(t.body, "{{name}}", p.name)
        b2 == replace(b1, "{{email}}", p.email)
        b3 == replace(b2, "{{phone}}", p.phone)
        b4 == replace(b3, "{{title}}", p.title)
        b5 == replace(b4, "{{summary}}", p.summary)
        b6 == replace(b5, "{{skills}}", join(p.skills, ", "))
        b7 == replace(b6, "{{experience_years}}", to_string(p.experience_years))
        b8 == replace(b7, "{{linkedin}}", unwrap_or(p.linkedin, <<"N/A">>))
        b9 == replace(b8, "{{github}}", unwrap_or(p.github, <<"N/A">>))
    IN [subject |-> subj, body |-> b9]

NotRendered == [subject |-> <<>>, body |-> <<>>]

\* The configuration of the repository's tests.
DefaultConfig ==
    [profile |-> [name |-> <<"Joao Silva">>, email |-> <<"joao@example.com">>,
                  phone |-> <<"+351 912 345 678">>, title |-> <<"Desenvolvedor Rust">>,
                  summary |-> <<"Desenvolvedor experiente">>,
                  skills |-> << <<"Rust">>, <<"Tokio">> >>,
                  experience_years |-> 5,
                  linkedin |-> Some(<<"linkedin.com/in/joao">>),
                  github |-> Some(<<"github.com/joao">>)],
     template |-> [subject |-> <<"Candidatura - ", "{{name}}", " - ", "{{title}}">>,
                   body |-> <<"Nome: ", "{{name}}", "Email: ", "{{email}}",
                              "Skills: ", "{{skills}}", "LinkedIn: ", "{{linkedin}}">>]]

\* Configurations a config.json can hold.
Profiles ==
    [name : {<<"Ana">>, <<"{{email}}">>},
     email : {<<"ana@example.com">>},
     phone : {<<"123">>},
     title : {<<"Dev">>},
     summary : {<<"Sum">>},
     skills : {<<>>, << <<"Rust">>, <<"Tokio">> >>},
     experience_years : {3, 12},
     linkedin : {None, Some(<<"linkedin.com/in/ana">>)},
     github : {None, Some(<<"github.com/ana">>)}]
Subjects == {<<"{{name}}", " - ", "{{title}}">>, <<"{{email}}">>}
Bodies == SeqsUpTo(Tokens \cup {"Hello "}, MaxBody)
           \cup {<<"{{linkedin}}", " ", "{{github}}", " ", "{{experience_years}}">>}
Configs == [profile : Profiles, template : [subject : Subjects, body : Bodies]]

\* ------------------------------------------------------------ state
VARIABLES
    pc,          \* where main is
    log,         \* main's `log.records`
    file,        \* contents of sent_log.json
    screen,      \* the last thing printed
    exit,        \* how main returned: "running", "ok", "error", "panic"
    email,       \* send_single's `email`
    emails,      \* send_bulk's `emails`
    min_delay,   \* send_bulk's `min_delay`
    max_delay,   \* send_bulk's `max_delay`
    i,           \* send_bulk's loop index (0-based)
    result,      \* `result` of the attempt being recorded
    success,     \* send_bulk's `success`
    failed,      \* send_bulk's `failed`
    inflight,    \* send_email calls that have not returned
    sent,        \* history: addresses handed to send_email by the current operation
    clock,       \* the wall clock, as last read by Local::now()
    delay,       \* send_bulk's `delay`
    ndelays,     \* history: delays drawn by the current bulk run
    drawn,       \* history: the set of delay values drawn by the current bulk run
    base,        \* history: Len(log) when the current operation began
    before,      \* history: the file as it was when the current save began
    outcome,     \* how the last operation ended
    loaded,      \* history: the log as load_log returned it at start-up
    config,      \* main's `config` (profile and template)
    rendered     \* the (subject, body) last shown by preview_email

vars == <<pc, log, file, screen, exit, email, emails, min_delay, max_delay, i,
          result, success, failed, inflight, sent, clock, delay, ndelays, drawn, base, before, outcome,
          loaded, config, rendered>>

vars_but_pc == <<log, file, screen, exit, email, emails, min_delay, max_delay, i,
                 result, success, failed, inflight, sent, clock, delay, ndelays, drawn, base, before, outcome,
          loaded, config, rendered>>
vars_but_file == <<pc, log, screen, exit, email, emails, min_delay, max_delay, i,
                   result, success, failed, inflight, sent, clock, delay, ndelays, drawn, base, before, outcome,
          loaded, config, rendered>>
bulkLocals == <<emails, min_delay, max_delay, i, success, failed>>
history    == <<sent, clock, delay, ndelays, drawn, base, before, loaded, config>>

InitProcess ==
    /\ pc = "start"
    /\ log = <<>>
    /\ file \in InitialFiles
    /\ screen = "banner"
    /\ exit = "running"
    /\ email = EmptyLine
    /\ emails = <<>>
    /\ min_delay = 0
    /\ max_delay = 0
    /\ i = 0
    /\ result = NoResult
    /\ success = 0
    /\ failed = 0
    /\ inflight = 0
    /\ sent = <<>>
    /\ clock = 0
    /\ delay = 0
    /\ ndelays = 0
    /\ drawn = {}
    /\ base = 0
    /\ before = file
    /\ outcome = "none"
    /\ loaded = <<>>
    /\ rendered = NotRendered

Init ==
    /\ InitProcess
    /\ config = DefaultConfig

\* ------------------------------------------------------------ main
\* main, lines 347-369: config and CV present, load_log, print_stats.
main_start ==
    /\ pc = "start"
    /\ log' = load_log(file)
    /\ base' = Len(load_log(file))
    /\ loaded' = load_log(file)
    /\ screen' = "stats"
    /\ pc' = "menu"
    /\ UNCHANGED <<file, exit, email, result, inflight, sent, clock, delay, ndelays, drawn, before, outcome, config>>
    /\ UNCHANGED bulkLocals
    /\ UNCHANGED rendered

\* main, lines 352-355 and 361-364: config.json or cv.pdf is missing.
main_missing ==
    /\ pc = "start"
    /\ screen' = "missing"
    /\ exit' = "ok"
    /\ pc' = "exited"
    /\ UNCHANGED <<log, file, email, result, inflight, outcome>>
    /\ UNCHANGED bulkLocals
    /\ UNCHANGED history
    /\ UNCHANGED rendered

\* menu entry 4
main_quit ==
    /\ pc = "menu"
    /\ screen' = "bye"
    /\ exit' = "ok"
    /\ pc' = "exited"
    /\ UNCHANGED <<log, file, email, result, inflight, outcome>>
    /\ UNCHANGED bulkLocals
    /\ UNCHANGED history
    /\ UNCHANGED rendered

\* menu entry 2
preview_email ==
    /\ pc = "menu"
    /\ screen' = "preview"
    /\ rendered' = build_email(config)
    /\ UNCHANGED <<pc, log, file, exit, email, result, inflight, outcome>>
    /\ UNCHANGED bulkLocals
    /\ UNCHANGED history

\* menu entry 3
view_log ==
    /\ pc = "menu"
    /\ screen' = (IF Len(log) = 0 THEN "no history" ELSE "history")
    /\ UNCHANGED <<pc, log, file, exit, email, result, inflight, outcome>>
    /\ UNCHANGED bulkLocals
    /\ UNCHANGED history
    /\ UNCHANGED rendered

\* ------------------------------------------------------------ returns
\* An error returned by save_log leaves send_single / send_bulk through `?`,
\* and main through the `?` of lines 389-390.
StorageError ==
    /\ pc' = "failed"
    /\ exit' = "error"
    /\ outcome' = "storage error"

\* send_single / send_bulk return Ok(()) to the menu: their locals are dropped.
ReturnToMenu(how) ==
    /\ pc' = "menu"
    /\ outcome' = how
    /\ screen' = "menu"
    /\ email' = EmptyLine
    /\ emails' = <<>>
    /\ min_delay' = 0
    /\ max_delay' = 0
    /\ i' = 0
    /\ result' = NoResult
    /\ success' = 0
    /\ failed' = 0
    /\ sent' = <<>>
    /\ delay' = 0
    /\ ndelays' = 0
    /\ drawn' = {}
    /\ base' = Len(log)
    /\ before' = file
    /\ UNCHANGED <<log, file, exit, inflight, clock, loaded, config>>

\* ------------------------------------------------------------ send_single
\* lines 172-185: the address is read (any non-empty text) and send_email starts.
single_invoke ==
    /\ pc = "menu"
    /\ Len(log) < MaxLog
    /\ \E e \in InputLines \ {EmptyLine} : email' = e /\ sent' = <<e>>
    /\ inflight' = inflight + 1
    /\ screen' = "menu"
    /\ outcome' = "pending"
    /\ pc' = "single_await"
    /\ UNCHANGED <<log, file, exit, result, clock, delay, ndelays, drawn, base, before, loaded, config>>
    /\ UNCHANGED bulkLocals
    /\ UNCHANGED rendered

\* lines 185-195: send_email returns, the record is pushed and fs::write
\* opens (and truncates) the log file, or fails to open it.
single_record ==
    /\ pc = "single_await"
    /\ \E res \in send_email(email), opened \in BOOLEAN :
         /\ result' = res
         /\ log' = push(log, SentRecord(email, now(clock), res))
         /\ before' = file
         /\ IF opened
            THEN /\ file' = Truncated
                 /\ pc' = "single_write"
                 /\ UNCHANGED <<exit, outcome>>
            ELSE /\ file' = file
                 /\ StorageError
    /\ clock' = now(clock)
    /\ inflight' = returned(inflight)
    /\ UNCHANGED <<screen, email, sent, delay, ndelays, drawn, base, loaded, config>>
    /\ UNCHANGED bulkLocals
    /\ UNCHANGED rendered

\* line 195: fs::write finishes, or fails part-way.
single_write ==
    /\ pc = "single_write"
    /\ \E written \in BOOLEAN :
         /\ IF written
            THEN file' = save_log(file, log)
            ELSE \E k \in 0..Len(log) : file' = Partial(log, k)
         /\ IF question_mark(written)
            THEN /\ pc' = "single_done"
                 /\ UNCHANGED <<exit, outcome>>
            ELSE StorageError
    /\ UNCHANGED <<log, screen, email, result, inflight>>
    /\ UNCHANGED bulkLocals
    /\ UNCHANGED history
    /\ UNCHANGED rendered

\* lines 197-202: the outcome is printed and send_single returns Ok(()).
single_return ==
    /\ pc = "single_done"
    /\ ReturnToMenu("single_done")
    /\ UNCHANGED rendered

\* ------------------------------------------------------------ send_bulk
\* line 206-208
bulk_begin ==
    /\ pc = "menu"
    /\ emails' = <<>>
    /\ screen' = "menu"
    /\ outcome' = "pending"
    /\ pc' = "bulk_input"
    /\ UNCHANGED <<log, file, exit, email, result, inflight,
                   min_delay, max_delay, i, success, failed>>
    /\ UNCHANGED history
    /\ UNCHANGED rendered

\* lines 209-226: one turn of the input loop, and the empty-list return.
bulk_input ==
    /\ pc = "bulk_input"
    /\ \E line \in InputLines :
         IF is_empty(line)
         THEN IF no_recipients(emails)
              THEN ReturnToMenu("bulk_noop")
              ELSE /\ pc' = "bulk_params"
                   /\ UNCHANGED vars_but_pc
         ELSE IF contains(line, "@")
              THEN /\ Len(emails) < MaxRecipients
                   /\ Len(log) + Len(emails) < MaxLog
                   /\ emails' = push(emails, line)
                   /\ screen' = "menu"
                   /\ UNCHANGED <<pc, outcome, log, file, exit, email, result, inflight,
                                  min_delay, max_delay, i, success, failed>>
                   /\ UNCHANGED history
              ELSE /\ screen' = "invalid"
                   /\ UNCHANGED <<pc, outcome, log, file, exit, email, result, inflight>>
                   /\ UNCHANGED bulkLocals
                   /\ UNCHANGED history
    /\ UNCHANGED rendered

\* lines 228-263: the two delay prompts, the confirmation, the counters.
bulk_params ==
    /\ pc = "bulk_params"
    /\ \E mn \in Delays, mx \in Delays, confirmed \in BOOLEAN :
         IF confirmed
         THEN /\ min_delay' = mn
              /\ max_delay' = mx
              /\ i' = 0
              /\ success' = 0
              /\ failed' = 0
              /\ screen' = "menu"
              /\ pc' = "bulk_loop"
              /\ UNCHANGED <<log, file, exit, email, emails, result, inflight, outcome>>
              /\ UNCHANGED history
         ELSE ReturnToMenu("bulk_cancelled")
    /\ UNCHANGED rendered

\* lines 265-268: the loop hands emails[i] to send_email.
bulk_invoke ==
    /\ pc = "bulk_loop"
    /\ sent' = Append(sent, emails[i + 1])
    /\ inflight' = inflight + 1
    /\ pc' = "bulk_await"
    /\ UNCHANGED <<log, file, screen, exit, email, result, clock, delay, ndelays, drawn, base, before, outcome,
          loaded, config, rendered>>
    /\ UNCHANGED bulkLocals
    /\ UNCHANGED rendered

\* lines 268-277: send_email returns, the record is pushed and fs::write
\* opens (and truncates) the log file, or fails to open it.
bulk_record ==
    /\ pc = "bulk_await"
    /\ \E res \in send_email(emails[i + 1]), opened \in BOOLEAN :
         /\ result' = res
         /\ log' = push(log, SentRecord(emails[i + 1], now(clock), res))
         /\ before' = file
         /\ IF opened
            THEN /\ file' = Truncated
                 /\ pc' = "bulk_write"
                 /\ UNCHANGED <<exit, outcome>>
            ELSE /\ file' = file
                 /\ StorageError
    /\ clock' = now(clock)
    /\ inflight' = returned(inflight)
    /\ UNCHANGED <<screen, email, sent, delay, ndelays, drawn, base, loaded, config>>
    /\ UNCHANGED bulkLocals
    /\ UNCHANGED rendered

\* lines 277-297: fs::write finishes (or fails part-way); on success the
\* tally is updated and the run either draws its delay and sleeps or leaves
\* the loop.
bulk_write ==
    /\ pc = "bulk_write"
    /\ \E written \in BOOLEAN :
         /\ IF written
            THEN file' = save_log(file, log)
            ELSE \E k \in 0..Len(log) : file' = Partial(log, k)
         /\ IF question_mark(written)
            THEN /\ success' = count_success(success, result)
                 /\ failed' = count_failed(failed, result)
                 /\ IF not_last(i, Len(emails))
                    THEN IF min_delay > max_delay
                         THEN /\ pc' = "panicked"
                              /\ exit' = "panic"
                              /\ outcome' = "panic"
                              /\ UNCHANGED <<delay, ndelays, drawn>>
                         ELSE /\ \E d \in gen_range(min_delay, max_delay) :
                                    delay' = d /\ drawn' = drawn \cup {d}
                              /\ ndelays' = ndelays + 1
                              /\ pc' = "bulk_sleep"
                              /\ UNCHANGED <<exit, outcome>>
                    ELSE /\ pc' = "bulk_done"
                         /\ UNCHANGED <<exit, outcome, delay, ndelays, drawn>>
            ELSE /\ StorageError
                 /\ UNCHANGED <<success, failed, delay, ndelays, drawn>>
    /\ UNCHANGED <<log, screen, email, emails, min_delay, max_delay, i, result,
                   inflight, sent, clock, base, before, loaded, config>>
    /\ UNCHANGED rendered

\* lines 296-298 and 265: the sleep ends and the loop moves to the next address.
bulk_wake ==
    /\ pc = "bulk_sleep"
    /\ i' = i + 1
    /\ pc' = "bulk_loop"
    /\ UNCHANGED <<log, file, screen, exit, email, emails, min_delay, max_delay,
                   result, success, failed, inflight, outcome>>
    /\ UNCHANGED history
    /\ UNCHANGED rendered

\* lines 300-309: the tally is printed and send_bulk returns Ok(()).
bulk_return ==
    /\ pc = "bulk_done"
    /\ ReturnToMenu("bulk_done")
    /\ UNCHANGED rendered

Next ==
    \/ main_start
    \/ main_missing
    \/ main_quit
    \/ preview_email
    \/ view_log
    \/ single_invoke
    \/ single_record
    \/ single_write
    \/ single_return
    \/ bulk_begin
    \/ bulk_input
    \/ bulk_params
    \/ bulk_invoke
    \/ bulk_record
    \/ bulk_write
    \/ bulk_wake
    \/ bulk_return

Spec == Init /\ [][Next]_vars

\* ------------------------------------------------------------ second writer
\* Another instance of the mailer started in the same directory that loads
\* the log (line 368), performs one single send (lines 185-195) and leaves,
\* all while this instance waits for the network or sleeps.
other_instance_send ==
    /\ pc \in {"single_await", "bulk_await", "bulk_sleep"}
    /\ Len(load_log(file)) < MaxLog
    /\ \E res \in send_email(AddrB) :
         file' = save_log(file, push(load_log(file), SentRecord(AddrB, clock, res)))
    /\ UNCHANGED vars_but_file
    /\ UNCHANGED rendered

NextShared ==
    \/ Next
    \/ other_instance_send

SpecShared == Init /\ [][NextShared]_vars

\* ------------------------------------------------------------ vocabulary
IsPrefix(s, t) == Len(s) <= Len(t) /\ \A k \in 1..Len(s) : s[k] = t[k]

BulkPcs == {"bulk_loop", "bulk_await", "bulk_write", "bulk_sleep", "bulk_done"}

\* A confirmed bulk run is under way, has completed, or has been aborted.
InBulkRun == Len(emails) > 0 /\ pc \in BulkPcs \cup {"failed", "panicked"}

\* The records pushed by the current operation.
RunRecords == SubSeq(log, base + 1, Len(log))

\* Attempts whose send_email call has returned.
Completed == Len(sent) - inflight

CountWhere(records, flag) ==
    Cardinality({k \in 1..Len(records) : records[k].success = flag})

\* ------------------------------------------------------------ claims

\* C1: in a bulk run the addresses handed to the transport and the records
\* pushed by the run both follow the input order: the k-th record of the run
\* is for emails[k], whatever the attempts' outcomes, and a completed run has
\* pushed one record per recipient.
C1_BulkOrder ==
    InBulkRun =>
        /\ IsPrefix(sent, emails)
        /\ Len(RunRecords) <= Len(sent)
        /\ \A k \in 1..Len(RunRecords) : RunRecords[k].email = emails[k]
        /\ (pc = "bulk_done" => Len(RunRecords) = Len(emails))

C1_Witness ==
    /\ pc = "bulk_done"
    /\ Len(emails) = 3
    /\ emails[1] # emails[2]
    /\ ~RunRecords[1].success
    /\ RunRecords[2].success

\* C2: a bulk run that has stopped without a storage error has handed every
\* position of the recipient list to the transport exactly once, in order.
C2_EveryPositionAttempted ==
    InBulkRun =>
        /\ IsPrefix(sent, emails)
        /\ (pc \notin {"bulk_loop", "bulk_await", "bulk_write", "bulk_sleep"}
            /\ outcome # "storage error") => sent = emails

\* C3: once an attempt's procedure is past its save, that is during the
\* inter-send delay, when the next send_email starts and runs, and when the
\* operation is done, the log file holds exactly the in-memory log, which
\* has one record for every attempt completed so far.
C3_Durable ==
    (\/ pc \in {"bulk_sleep", "bulk_done", "single_done"}
     \/ (pc \in {"bulk_loop", "bulk_await"} /\ i > 0)) =>
        /\ file.exists
        /\ file.text = to_string_pretty(log)
        /\ load_log(file) = log
        /\ Len(RunRecords) = Completed
        /\ \A k \in 1..Len(RunRecords) : RunRecords[k].email = sent[k]

C3_Witness ==
    /\ pc = "bulk_await"
    /\ i = 1
    /\ Len(log) = base + 1
    /\ load_log(file) = log
    /\ ~log[Len(log)].success

\* C4: a bulk run has drawn i delays when it starts the attempt for emails[i]
\* (one between every two consecutive attempts), sleeps only when a recipient
\* is left, and a completed run over n recipients has drawn exactly n - 1.
C4_DelayCount ==
    /\ pc \in {"bulk_loop", "bulk_await", "bulk_write"} => ndelays = i
    /\ pc = "bulk_sleep" => (ndelays = i + 1 /\ i + 1 < Len(emails))
    /\ pc = "bulk_done" => (ndelays = Len(emails) - 1 /\ i = Len(emails) - 1)

C4_Witness ==
    /\ pc = "bulk_done"
    /\ Len(emails) = 3
    /\ ndelays = 2

\* C5: every delay drawn by a bulk run lies in [min_delay, max_delay], the
\* delay being slept is one of them, and with min_delay = max_delay every
\* delay drawn equals min_delay.
C5_DelayBounds ==
    pc \in BulkPcs =>
        /\ \A d \in drawn : min_delay <= d /\ d <= max_delay
        /\ (pc = "bulk_sleep" => delay \in drawn)
        /\ (min_delay = max_delay /\ ndelays > 0 => drawn = {min_delay})

\* Both bounds are drawn in one run.
C5_Witness ==
    /\ pc = "bulk_done"
    /\ min_delay < max_delay
    /\ drawn = {min_delay, max_delay}

\* C6: a bulk send whose input loop ends with no recipient returns to the
\* menu at once as a no-op: nothing is handed to the transport, no delay is
\* drawn, the in-memory log and the log file are unchanged, main goes on.
C6_EmptyNoop ==
    [][(pc = "bulk_input" /\ is_empty(emails) /\ pc' # "bulk_input") =>
          /\ pc' = "menu"
          /\ outcome' = "bulk_noop"
          /\ log' = log
          /\ file' = file
          /\ sent' = <<>> /\ sent = <<>>
          /\ ndelays' = 0 /\ ndelays = 0
          /\ inflight' = 0
          /\ exit' = "running"]_vars

C6_Witness ==
    /\ pc = "menu"
    /\ outcome = "bulk_noop"
    /\ Len(log) > 0

\* C7: at every iteration boundary of a bulk run success + failed is the
\* number of attempts completed, success counts the run's records with
\* success = true and failed those with success = false; a completed run has
\* success + failed = number of recipients.
C7_Tally ==
    pc \in {"bulk_loop", "bulk_await", "bulk_sleep", "bulk_done"} =>
        /\ success + failed = Completed
        /\ success = CountWhere(RunRecords, TRUE)
        /\ failed = CountWhere(RunRecords, FALSE)
        /\ (pc = "bulk_done" => success + failed = Len(emails))

C7_Witness ==
    /\ pc = "bulk_done"
    /\ Len(emails) = 3
    /\ success = 2
    /\ failed = 1

\* C8: when the save after an attempt fails, main returns the error, the
\* attempt stays made and its record stays last in the in-memory log, and
\* nothing further happens: no later recipient is handed to the transport.
C8_StorageErrorSurfaced ==
    /\ [](pc = "failed" =>
            /\ exit = "error"
            /\ outcome = "storage error"
            /\ inflight = 0
            /\ Len(sent) > 0
            /\ Len(log) = base + Len(sent)
            /\ log[Len(log)] = SentRecord(sent[Len(sent)], log[Len(log)].sent_at, result))
    /\ [][(pc \in {"single_write", "bulk_write"} /\ load_log(file') # log) =>
             (pc' = "failed" /\ log' = log /\ sent' = sent)]_vars
    /\ [][pc = "failed" => UNCHANGED vars]_vars

C8_Witness ==
    /\ pc = "failed"
    /\ Len(emails) = 3
    /\ Len(sent) = 1
    /\ log[Len(log)].success
    /\ load_log(file) # log

\* C9: the in-memory log only grows: every step leaves the earlier log as a
\* prefix of the later one.
C9_LogGrows == [][IsPrefix(log, log')]_vars

C9_Witness ==
    /\ pc = "menu"
    /\ screen = "history"
    /\ outcome = "bulk_done"
    /\ Len(log) >= 3
    /\ log[1] \in StoredRecords

\* C10: every successful append leaves in the log file what the file held
\* when the append began, followed by the new record.
C10_LoadModifySave ==
    [][(pc \in {"single_write", "bulk_write"} /\ pc' \notin {"failed", "single_write", "bulk_write"}) =>
          load_log(file') = Append(load_log(before), log[Len(log)])]_vars

\* ------------------------------------------------------------ user abort
\* main installs no signal handler: a user abort (Ctrl-C, SIGINT) or any
\* other abrupt termination ends the process wherever it is.  A write in
\* progress stops with the part of the text written so far.
Stopped == {"exited", "failed", "panicked", "killed"}

interrupt_ignored ==
    /\ pc \notin Stopped
    /\ exit' = "signal"
    /\ UNCHANGED <<pc, log, file, screen, email, result, inflight, outcome>>
    /\ UNCHANGED bulkLocals
    /\ UNCHANGED history
    /\ UNCHANGED rendered
interrupt ==
    /\ pc \notin Stopped
    /\ pc' = "killed"
    /\ exit' = "signal"
    /\ inflight' = 0
    /\ IF pc \in {"single_write", "bulk_write"}
       THEN \E k \in 0..Len(log) : file' = Partial(log, k)
       ELSE file' = file
    /\ UNCHANGED <<log, screen, email, result, outcome>>
    /\ UNCHANGED bulkLocals
    /\ UNCHANGED history
    /\ UNCHANGED rendered

NextAbort ==
    \/ Next
    \/ interrupt

SpecAbort == Init /\ [][NextAbort]_vars

\* The text of the file is a complete document.
Loadable(f) == f.exists /\ from_str(f.text) # None

C12_ValidAfterAbort ==
    (pc = "killed" /\ Loadable(before)) =>
        (Loadable(file) /\ IsPrefix(load_log(before), load_log(file)))

\* C13: start-up gets past load_log whatever the log file holds: with the
\* file absent or its text incomplete the log starts empty, otherwise it
\* starts as the records of the file, in order.
C13_LoadNeverFails ==
    /\ pc = "start" => ENABLED main_start
    /\ (pc = "menu" /\ outcome = "none") =>
        /\ exit = "running"
        /\ IF file.exists /\ file.text.closed
           THEN /\ Len(log) = Len(file.text.records)
                /\ \A k \in 1..Len(log) : to_json(log[k]) = file.text.records[k]
           ELSE log = <<>>

C13_Witness ==
    /\ pc = "menu"
    /\ outcome = "none"
    /\ file.exists
    /\ ~file.text.closed
    /\ Len(file.text.records) > 0
    /\ log = <<>>

\* C14: after the appends of a session have been saved, loading the file
\* again yields the records loaded at start-up followed by the appended
\* records, in order and with the same field values.
C14_RoundTrip ==
    (pc \in {"menu", "exited"} /\ outcome \in {"single_done", "bulk_done"}) =>
        LET back == load_log(file) IN
        /\ IsPrefix(loaded, back)
        /\ Len(back) = Len(log)
        /\ Len(back) > Len(loaded)
        /\ \A k \in (Len(loaded) + 1)..Len(log) :
              /\ back[k].email = log[k].email
              /\ back[k].sent_at = log[k].sent_at
              /\ back[k].success = log[k].success
              /\ back[k].error = log[k].error

C14_Witness ==
    /\ pc = "exited"
    /\ outcome = "single_done"
    /\ loaded = <<>>
    /\ Len(log) = 2
    /\ log[1].error # None
    /\ log[2].error = None
    /\ load_log(file) = <<log[1], log[2]>>

\* C15: a bulk run that reaches its delay step has 0 <= min_delay <= max_delay.
C15_DelayParamsOrdered ==
    pc \in {"bulk_sleep", "panicked"} => (0 <= min_delay /\ min_delay <= max_delay)

\* C16: at most one send_email call is in flight, and only while the
\* operation awaits it; a bulk run starts the call for emails[i] only when
\* the calls for the i earlier addresses have returned, their records are
\* pushed and saved, and the i delays between them have been slept.
C16_Sequential ==
    /\ [](/\ inflight \in {0, 1}
          /\ inflight = 1 <=> pc \in {"single_await", "bulk_await"})
    /\ [][(pc = "bulk_loop" /\ pc' = "bulk_await") =>
            /\ inflight = 0
            /\ Len(sent) = i
            /\ Len(RunRecords) = i
            /\ ndelays = i
            /\ (i > 0 => (Loadable(file) /\ load_log(file) = log))]_vars

C16_Witness ==
    /\ pc = "bulk_await"
    /\ i = 2
    /\ inflight = 1
    /\ Len(RunRecords) = 2

\* C17: a single send hands its address to the transport once and pushes
\* exactly one record, for that address, with success = true and no error
\* when the transport succeeded and success = false and the transport's
\* error when it failed; once the save has succeeded it returns Ok to the
\* menu in both cases.
C17_SingleSend ==
    /\ [](pc = "single_done" =>
            /\ sent = <<email>>
            /\ result \in send_email(email)
            /\ Len(log) = base + 1
            /\ log[Len(log)].email = email
            /\ log[Len(log)].success = result.ok
            /\ (result.ok => log[Len(log)].error = None)
            /\ (~result.ok => (log[Len(log)].error = result.err /\ result.err # None))
            /\ exit = "running")
    /\ [][(pc = "single_write" /\ load_log(file') = log) => pc' = "single_done"]_vars
    /\ [][pc = "single_done" => (pc' = "menu" /\ log' = log /\ exit' = "running")]_vars

C17_Witness ==
    /\ pc = "single_done"
    /\ email = AddrA
    /\ ~log[Len(log)].success
    /\ log[Len(log)].error = Some("mailbox full")

\* ------------------------------------------------------------ rendering runs
\* The process started on any configuration, showing previews.
InitRender ==
    /\ InitProcess
    /\ config \in Configs

NextRender ==
    \/ main_start
    \/ main_missing
    \/ main_quit
    \/ preview_email
    \/ view_log

SpecRender == InitRender /\ [][NextRender]_vars

HasToken(text) == \E k \in 1..Len(text) : text[k] \in Tokens

\* What a placeholder stands for.
ValueOf(token, p) ==
    CASE token = "{{name}}" -> p.name
      [] token = "{{email}}" -> p.email
      [] token = "{{phone}}" -> p.phone
      [] token = "{{title}}" -> p.title
      [] token = "{{summary}}" -> p.summary
      [] token = "{{skills}}" -> join(p.skills, ", ")
      [] token = "{{experience_years}}" -> to_string(p.experience_years)
      [] token = "{{linkedin}}" -> unwrap_or(p.linkedin, <<"N/A">>)
      [] token = "{{github}}" -> unwrap_or(p.github, <<"N/A">>)

\* Every placeholder of the template replaced by its value, the values
\* themselves left as they are.
RECURSIVE Substituted(_, _)
Substituted(text, p) ==
    IF text = <<>> THEN <<>>
    ELSE (IF Head(text) \in Tokens THEN ValueOf(Head(text), p) ELSE <<Head(text)>>)
         \o Substituted(Tail(text), p)

\* C18: a preview shows a subject and a body with no recognized placeholder
\* left in them.
C18_NoPlaceholderLeft ==
    screen = "preview" => (~HasToken(rendered.subject) /\ ~HasToken(rendered.body))

\* C19: the body shown is the template body with each placeholder replaced
\* by its profile value, a value that contains a placeholder appearing as it
\* is.
C19_NoResubstitution ==
    screen = "preview" => rendered.body = Substituted(config.template.body, config.profile)

\* ------------------------------------------------------------ progress
\* The scheduling the code gives a bulk run: a send_email future that is
\* ready is polled, a write that has been opened is carried on, and a sleep
\* that has been started ends.
SpecFair ==
    /\ Init
    /\ [][Next]_vars
    /\ WF_vars(bulk_invoke)
    /\ WF_vars(bulk_record)
    /\ WF_vars(bulk_write)
    /\ WF_vars(bulk_wake)

\* C20: a confirmed bulk run whose log writes all succeed reaches its end
\* with one record appended for every recipient, and its position in the
\* list never moves back.
C20_BulkTerminates ==
    /\ (pc = "bulk_loop" /\ i = 0)
           ~> \/ pc = "bulk_done" /\ Len(RunRecords) = Len(emails)
              \/ outcome = "storage error"
    /\ [][(InBulkRun /\ InBulkRun') => i' \in {i, i + 1}]_vars

====
